---- MODULE Spec2Model ----
(***************************************************************************)
(* Model of the virtualized Select widget (Select.tsx), of the settings    *)
(* panel's handleUpdateConfig (AceSettings) and of the settings tab that   *)
(* hosts them.  One action is one event handler together with the render   *)
(* and the effects React runs for it.                                      *)
(***************************************************************************)
EXTENDS Integers, Sequences, FiniteSets, TLC

VARIABLES
    mounted,            \* a Select instance is mounted
    options,            \* props.options: [len, variant]
    value,              \* props.value
    isOpen,             \* useState(false)
    visibleStartIndex,  \* useState(0)
    maxDropdownWidth,   \* useState(0)
    scrollTop,          \* dropdownRef.current.scrollTop (0 while no dropdown exists)
    pendingScroll,      \* a scroll event of the dropdown is queued, not yet dispatched
    viewportHeight,     \* the dropdown's maximum client height, set by the stylesheet
    listeners,          \* number of "mousedown" listeners registered on document
    probeNodes,         \* number of measurement spans attached to document.body
    errorEscaped,       \* an exception left the width measurement effect
    dom,                \* what the last render produced
    step,               \* the last event: kind, argument, what it called
    openSettling,       \* the dropdown was opened and nothing but its own scroll event followed
    settingsValue,      \* AceSettings: the settingsValue of the last render (closure value)
    queuedSettings,     \* AceSettings: the state as of the last setSettingsValue
    pluginSettings,     \* plugin.settings
    pluginStale,        \* plugin.settings is another object than at the last render
    renderDue,          \* AceSettings has a state update that is not yet rendered
    updateCalls,        \* the arguments plugin.updateSettings was called with, in order
    instMounted,        \* several Selects in one document: the mounted instances
    instOpen,           \* the instances whose isOpen is true
    docListeners,       \* the instances whose handleClickOutside is registered on document
    pressed,            \* the target of the last mousedown, until its click is dispatched
    multiStep,          \* the last event among the instances
    root,               \* AceCodeEditorSettingTab.root: 0 for null, else the root's identity
    liveRoots,          \* the roots created by createRoot and not unmounted
    rootsCreated,       \* how many roots createRoot has returned
    containerEl,        \* what the tab's container element holds
    tabCalls,           \* the display() and hide() calls so far, in order
    tabStep             \* the last call on the tab and what it did

selectVars ==
    <<mounted, options, value, isOpen, visibleStartIndex, maxDropdownWidth, scrollTop,
      pendingScroll, viewportHeight, listeners, probeNodes, errorEscaped, dom, step,
      openSettling>>

settingsVars ==
    <<settingsValue, queuedSettings, pluginSettings, pluginStale, renderDue, updateCalls>>

multiVars ==
    <<instMounted, instOpen, docListeners, pressed, multiStep>>

tabVars ==
    <<root, liveRoots, rootsCreated, containerEl, tabCalls, tabStep>>

vars ==
    <<selectVars, settingsVars, multiVars, tabVars>>

----------------------------------------------------------------------------
(* Program constants of Select.tsx *)

itemHeight == 36

visibleItems == 10

bufferItems == 5

(* Bounds of the model *)

MaxOptions == 24

ValueShift == 10

ScrollGranule == 90

Max(a, b) == IF a >= b THEN a ELSE b

Min(a, b) == IF a <= b THEN a ELSE b

----------------------------------------------------------------------------
(* Option lists.  A list is [len, variant]; option i (0-based) has value     *)
(* variant * ValueShift + i + 1 and a label whose measured width is         *)
(* LabelWidth.  Value 0 matches no option of any list.                      *)

OptionLens == {0, 1, MaxOptions \div 2, MaxOptions}

OptionLists == [len : OptionLens, variant : {0, 1}]

Indices(opts) == 0 .. (opts.len - 1)

OptValue(opts, i) == opts.variant * ValueShift + i + 1

LabelWidth(opts, i) == 40 + 8 * ((3 * i + 2 * opts.variant + opts.len) % 7)

ValueChoices ==
    {0, 1, ValueShift + 1, MaxOptions, ValueShift + MaxOptions}

ViewportHeights == {itemHeight * 5, itemHeight * visibleItems}

\* Array.prototype.findIndex from index i on: the first index whose value is v, or -1
RECURSIVE FindIndex(_, _, _)
FindIndex(opts, v, i) ==
    IF i >= opts.len
    THEN -1
    ELSE IF OptValue(opts, i) = v THEN i ELSE FindIndex(opts, v, i + 1)

\* FindIndex tabulated over the lists and values of the model (f @@ f is f as an
\* explicit table, computed once)
FindIndexTable ==
    LET f == [opts \in OptionLists, v \in ValueChoices |-> FindIndex(opts, v, 0)]
    IN  f @@ f

\* options.findIndex((opt) => opt.value === value)
SelectedIndex(opts, v) == FindIndexTable[opts, v]

\* const totalHeight = options.length * itemHeight
TotalHeight(opts) == opts.len * itemHeight

\* Math.min(visibleStartIndex + visibleItems + bufferItems, options.length)
VisibleOptionsEndIndex(opts, vsi) == Min(vsi + visibleItems + bufferItems, opts.len)

VisibleOptionsStartFromZero(vsi) == 0

\* Math.max(0, visibleStartIndex - bufferItems): first index of options.slice
VisibleOptionsStart(vsi) == Max(0, vsi - bufferItems)

\* options.slice(start, end): the indices of the rendered rows
VisibleOptions(opts, vsi) ==
    VisibleOptionsStart(vsi) .. (VisibleOptionsEndIndex(opts, vsi) - 1)

\* width: maxDropdownWidth > 0 ? `${maxDropdownWidth}px` : "auto"
WidthStyle(w) == IF w > 0 THEN <<"px", w>> ELSE <<"auto">>

NoDom ==
    [open |-> FALSE, label |-> -1, controlWidth |-> <<"none">>,
     dropdownWidth |-> <<"none">>, spacerHeight |-> 0, rows |-> {}]

\* The element tree the component returns: the control, and the dropdown while open
Render(open, opts, v, vsi, width) ==
    [open |-> open,
     label |-> SelectedIndex(opts, v),
     controlWidth |-> IF open /\ width > 0 THEN <<"px", width>> ELSE <<"auto">>,
     dropdownWidth |-> IF open THEN WidthStyle(width) ELSE <<"none">>,
     spacerHeight |-> IF open THEN TotalHeight(opts) ELSE 0,
     rows |-> IF open THEN VisibleOptions(opts, vsi) ELSE {}]

\* The largest scrollTop the dropdown element accepts: scrollHeight - clientHeight
MaxScrollTop(opts, vh) == Max(0, TotalHeight(opts) - vh)

\* What the element's scrollTop reads after an assignment of s
ClampScroll(s, opts, vh) == Min(Max(0, s), MaxScrollTop(opts, vh))

HandleScrollWrongDivisor(st) == st \div visibleItems

\* handleScroll: Math.floor(scrollTop / itemHeight)
HandleScroll(st) == st \div itemHeight

\* The scroll-to-selected effect's new visible start index
CenteredStart(idx) == Max(0, idx - (visibleItems \div 2))

\* The scroll-to-selected effect's scroll position
ScrollPosition(idx) == idx * itemHeight

\* The measurement loop: maxWidth = Math.max(maxWidth, tempSpan.offsetWidth + 20)
RECURSIVE MeasureFrom(_, _, _)
MeasureFrom(opts, i, maxWidth) ==
    IF i >= opts.len
    THEN maxWidth
    ELSE MeasureFrom(opts, i + 1, Max(maxWidth, LabelWidth(opts, i) + 20))

\* The loop's result over all of options, starting from maxWidth = 0, tabulated
MeasureTable ==
    LET f == [opts \in OptionLists |-> MeasureFrom(opts, 0, 0)]
    IN  f @@ f

\* A render whose options array is the one of the render before: the effect is skipped
NoMeasure(width, probes) ==
    [width |-> width, threw |-> FALSE, measures |-> 0, probes |-> probes]

\* The width effect, run once (measures = 1).  getComputedStyle is called before the
\* span is appended, so a throw leaves the span unattached and skips
\* setMaxDropdownWidth; an empty list skips the whole body.
MaxWidthEffect(opts, width, probes, styleOk) ==
    IF opts.len > 0
    THEN IF styleOk
         THEN [width |-> MeasureTable[opts], threw |-> FALSE, measures |-> 1,
               probes |-> (probes + 1) - 1]
         ELSE [width |-> width, threw |-> TRUE, measures |-> 1, probes |-> probes]
    ELSE [width |-> width, threw |-> FALSE, measures |-> 1, probes |-> probes]

\* document.addEventListener("mousedown", handleClickOutside)
AddListener(n) == n + 1

RemoveListenerForgotten(n) == n

\* the effect's cleanup: document.removeEventListener("mousedown", handleClickOutside)
RemoveListener(n) == Max(0, n - 1)

OptionOnClickIndex(opts, i) == [calls |-> <<i>>, open |-> FALSE]

\* onClick of a row: onChange(option.value); setIsOpen(false)
OptionOnClick(opts, i) == [calls |-> <<OptValue(opts, i)>>, open |-> FALSE]

HandleClickOutsideAnyTarget(inside, open) == FALSE

HandleClickOutsideNever(inside, open) == open

\* handleClickOutside: setIsOpen(false) unless selectRef.current contains the target
HandleClickOutside(inside, open) == IF ~inside THEN FALSE ELSE open

Event(kind, idx, calls, measures, failed) ==
    [kind |-> kind, idx |-> idx, calls |-> calls, measures |-> measures,
     styleFailed |-> failed, wasOpen |-> isOpen]

EmptyList == [len |-> 0, variant |-> 0]

\* The tree is removed: every state of the instance is discarded
Discard ==
    /\ mounted' = FALSE
    /\ options' = EmptyList
    /\ value' = 0
    /\ isOpen' = FALSE
    /\ visibleStartIndex' = 0
    /\ maxDropdownWidth' = 0
    /\ scrollTop' = 0
    /\ pendingScroll' = FALSE
    /\ dom' = NoDom
    /\ openSettling' = FALSE

\* The render and the effects that follow a handler which left the component with
\* isOpen = open1, options = opts1, value = v1 and visibleStartIndex = vsi1.
Commit(kind, idx, calls, open1, opts1, v1, vsi1, isMount, optsChanged, styleOk, settling) ==
    LET prevIdx == SelectedIndex(options, value)
        idx1 == SelectedIndex(opts1, v1)
        kept == isOpen /\ open1 /\ ~isMount
        before == IF kept THEN scrollTop ELSE 0
        st0 == IF kept THEN ClampScroll(scrollTop, opts1, viewportHeight) ELSE 0
        runScroll ==
            /\ isMount \/ isOpen # open1 \/ prevIdx # idx1
            /\ open1
            /\ idx1 >= 0
        st1 == IF runScroll
               THEN ClampScroll(ScrollPosition(idx1), opts1, viewportHeight)
               ELSE st0
        vsi2 == IF runScroll THEN CenteredStart(idx1) ELSE vsi1
        lis == IF isMount THEN AddListener(listeners) ELSE listeners
        meas == IF isMount \/ optsChanged
                THEN MaxWidthEffect(opts1, maxDropdownWidth, probeNodes, styleOk)
                ELSE NoMeasure(maxDropdownWidth, probeNodes)
    IN  /\ step' = Event(kind, idx, calls, meas.measures, meas.threw)
        /\ probeNodes' = meas.probes
        /\ errorEscaped' = meas.threw
        /\ UNCHANGED viewportHeight
        /\ IF meas.threw
           THEN /\ Discard
                /\ listeners' = RemoveListener(lis)
           ELSE /\ mounted' = TRUE
                /\ options' = opts1
                /\ value' = v1
                /\ isOpen' = open1
                /\ visibleStartIndex' = vsi2
                /\ maxDropdownWidth' = meas.width
                /\ scrollTop' = IF open1 THEN st1 ELSE 0
                /\ pendingScroll' = (open1 /\ ((kept /\ pendingScroll) \/ st1 # before))
                /\ listeners' = lis
                /\ openSettling' = (open1 /\ settling)
                /\ dom' = Render(open1, opts1, v1, vsi2, meas.width)

----------------------------------------------------------------------------
(* The Select widget's events *)

\* A parent renders <Select value onChange options />
Mount(opts, v, styleOk) ==
    /\ ~mounted
    /\ Commit("mount", -1, <<>>, FALSE, opts, v, 0, TRUE, TRUE, styleOk, FALSE)
    /\ UNCHANGED <<settingsVars, multiVars, tabVars>>

\* The parent removes the Select: effect cleanups run
Unmount ==
    /\ mounted
    /\ Discard
    /\ listeners' = RemoveListener(listeners)
    /\ step' = Event("unmount", -1, <<>>, 0, FALSE)
    /\ errorEscaped' = FALSE
    /\ UNCHANGED <<viewportHeight, probeNodes>>
    /\ UNCHANGED <<settingsVars, multiVars, tabVars>>

\* onClick of the control: setIsOpen(!isOpen)
ToggleClick ==
    /\ mounted
    /\ Commit("toggle", -1, <<>>, ~isOpen, options, value, visibleStartIndex,
              FALSE, FALSE, TRUE, ~isOpen)
    /\ UNCHANGED <<settingsVars, multiVars, tabVars>>

\* onClick of rendered row i
OptionClick(i) ==
    /\ mounted
    /\ isOpen
    /\ i \in dom.rows
    /\ LET r == OptionOnClick(options, i)
       IN  Commit("select", i, r.calls, r.open, options, value, visibleStartIndex,
                  FALSE, FALSE, TRUE, FALSE)
    /\ UNCHANGED <<settingsVars, multiVars, tabVars>>

\* A mousedown reaches document; inside says whether the wrapper contains the target
MouseDown(inside) ==
    /\ mounted
    /\ listeners > 0
    /\ Commit(IF inside THEN "mousedownInside" ELSE "mousedownOutside", -1, <<>>,
              HandleClickOutside(inside, isOpen), options, value, visibleStartIndex,
              FALSE, FALSE, TRUE, FALSE)
    /\ UNCHANGED <<settingsVars, multiVars, tabVars>>

\* The offsets the model lets the user scroll to: every ScrollGranule pixels, and the end
ScrollOffsets ==
    {s \in 0 .. MaxScrollTop(options, viewportHeight) :
        s % ScrollGranule = 0 \/ s = MaxScrollTop(options, viewportHeight)}

\* The user scrolls the dropdown: the browser moves scrollTop and queues a scroll event
UserScroll(s) ==
    /\ mounted
    /\ isOpen
    /\ s # scrollTop
    /\ scrollTop' = s
    /\ pendingScroll' = TRUE
    /\ openSettling' = FALSE
    /\ step' = Event("userScroll", -1, <<>>, 0, FALSE)
    /\ UNCHANGED <<mounted, options, value, isOpen, visibleStartIndex, maxDropdownWidth,
                   viewportHeight, listeners, probeNodes, errorEscaped, dom>>
    /\ UNCHANGED <<settingsVars, multiVars, tabVars>>

\* onScroll of the dropdown: handleScroll
DispatchScroll ==
    /\ mounted
    /\ isOpen
    /\ pendingScroll
    /\ pendingScroll' = FALSE
    /\ visibleStartIndex' = HandleScroll(scrollTop)
    /\ dom' = Render(isOpen, options, value, HandleScroll(scrollTop), maxDropdownWidth)
    /\ step' = Event("scroll", -1, <<>>, 0, FALSE)
    /\ errorEscaped' = FALSE
    /\ UNCHANGED <<mounted, options, value, isOpen, maxDropdownWidth, scrollTop,
                   viewportHeight, listeners, probeNodes, openSettling>>
    /\ UNCHANGED <<settingsVars, multiVars, tabVars>>

\* The parent passes a new options array
ReplaceOptions(opts, styleOk) ==
    /\ mounted
    /\ Commit("replace", -1, <<>>, isOpen, opts, value, visibleStartIndex,
              FALSE, TRUE, styleOk, FALSE)
    /\ UNCHANGED <<settingsVars, multiVars, tabVars>>

\* The parent passes another value
ChangeValue(v) ==
    /\ mounted
    /\ v # value
    /\ Commit("value", -1, <<>>, isOpen, options, v, visibleStartIndex,
              FALSE, FALSE, TRUE, FALSE)
    /\ UNCHANGED <<settingsVars, multiVars, tabVars>>

----------------------------------------------------------------------------
(* The settings panel: AceSettings *)

SettingsKeys == {"lightTheme", "tabSize"}

MaxSettingValue == 2

MaxCalls == 3

InitialSettings == [k \in SettingsKeys |-> 0]

\* Partial<ICodeEditorConfig>: a value for each key of a non-empty set of keys
Partials ==
    UNION {[ks -> 1 .. MaxSettingValue] : ks \in (SUBSET SettingsKeys) \ {{}}}

\* { ...base, ...partial }
Spread(base, partial) ==
    [k \in SettingsKeys |-> IF k \in DOMAIN partial THEN partial[k] ELSE base[k]]

\* const updatedSettings = { ...settingsValue, ...newSettings }, settingsValue being
\* the value the callback closed over at the last render
UpdatedSettings(rendered, newSettings) == Spread(rendered, newSettings)

\* plugin.updateSettings(newSettings): plugin.settings becomes a new object holding
\* the old settings with newSettings applied
PluginUpdateSettings(current, newSettings) == Spread(current, newSettings)

\* handleUpdateConfig(newSettings)
HandleUpdateConfig(newSettings) ==
    /\ Len(updateCalls) < MaxCalls
    /\ queuedSettings' = UpdatedSettings(settingsValue, newSettings)
    /\ renderDue' = TRUE
    /\ pluginSettings' = PluginUpdateSettings(pluginSettings, newSettings)
    /\ pluginStale' = TRUE
    /\ updateCalls' = Append(updateCalls, newSettings)
    /\ UNCHANGED settingsValue
    /\ UNCHANGED <<selectVars, multiVars, tabVars>>

\* AceSettings renders with the queued state, then the effect on [plugin.settings]
\* runs if plugin.settings is another object than at the last render
RenderSettings ==
    /\ renderDue
    /\ settingsValue' = queuedSettings
    /\ IF pluginStale
       THEN /\ queuedSettings' = pluginSettings
            /\ renderDue' = TRUE
       ELSE /\ UNCHANGED queuedSettings
            /\ renderDue' = FALSE
    /\ pluginStale' = FALSE
    /\ UNCHANGED <<pluginSettings, updateCalls>>
    /\ UNCHANGED <<selectVars, multiVars, tabVars>>

\* The settings with every partial of calls applied in order
RECURSIVE ApplyAll(_, _)
ApplyAll(base, calls) ==
    IF calls = <<>> THEN base ELSE ApplyAll(Spread(base, Head(calls)), Tail(calls))

InitSettings ==
    /\ settingsValue = InitialSettings
    /\ queuedSettings = InitialSettings
    /\ pluginSettings = InitialSettings
    /\ pluginStale = FALSE
    /\ renderDue = FALSE
    /\ updateCalls = <<>>

InitSelect ==
    /\ mounted = FALSE
    /\ options = EmptyList
    /\ value = 0
    /\ isOpen = FALSE
    /\ visibleStartIndex = 0
    /\ maxDropdownWidth = 0
    /\ scrollTop = 0
    /\ pendingScroll = FALSE
    /\ viewportHeight \in ViewportHeights
    /\ listeners = 0
    /\ probeNodes = 0
    /\ errorEscaped = FALSE
    /\ dom = NoDom
    /\ step = [kind |-> "init", idx |-> -1, calls |-> <<>>, measures |-> 0,
               styleFailed |-> FALSE, wasOpen |-> FALSE]
    /\ openSettling = FALSE

----------------------------------------------------------------------------
(* Several Select instances in one document, as in the settings panel.  Their  *)
(* wrappers are siblings: a target inside one wrapper is outside every other.  *)

NumInstances == 3

Instances == 1 .. NumInstances

NoTarget == <<"none">>

\* selectRef.current.contains(event.target) for instance j
Contains(j, target) == Len(target) = 2 /\ target[2] = j

\* What a mousedown can hit: a control, a row of an open dropdown, or anything else
Targets ==
    {<<"outside">>}
        \cup {<<"control", i>> : i \in instMounted}
        \cup {<<"option", i>> : i \in instOpen}

MultiEvent(kind, inst, closed) == [kind |-> kind, inst |-> inst, closed |-> closed]

\* A parent renders one more <Select />: isOpen starts false, the listener is added
MountInstance(i) ==
    /\ i \notin instMounted
    /\ instMounted' = instMounted \cup {i}
    /\ docListeners' = docListeners \cup {i}
    /\ multiStep' = MultiEvent("mount", i, {})
    /\ UNCHANGED <<instOpen, pressed>>
    /\ UNCHANGED <<selectVars, settingsVars, tabVars>>

\* An instance is removed: its state is discarded and the effect's cleanup runs
UnmountInstance(i) ==
    /\ i \in instMounted
    /\ instMounted' = instMounted \ {i}
    /\ instOpen' = instOpen \ {i}
    /\ docListeners' = docListeners \ {i}
    /\ pressed' = IF Contains(i, pressed) THEN NoTarget ELSE pressed
    /\ multiStep' = MultiEvent("unmount", i, {})
    /\ UNCHANGED <<selectVars, settingsVars, tabVars>>

\* A mousedown reaches document: every registered handleClickOutside runs
MouseDownAt(target) ==
    /\ instMounted # {}
    /\ instOpen' =
          {j \in instMounted :
              IF j \in docListeners
              THEN HandleClickOutside(Contains(j, target), j \in instOpen)
              ELSE j \in instOpen}
    /\ pressed' = target
    /\ multiStep' = MultiEvent("mousedown", 0, instOpen \ instOpen')
    /\ UNCHANGED <<instMounted, docListeners>>
    /\ UNCHANGED <<selectVars, settingsVars, tabVars>>

\* The click that follows a mousedown on the control of i: setIsOpen(!isOpen)
ControlClick(i) ==
    /\ i \in instMounted
    /\ pressed = <<"control", i>>
    /\ instOpen' = IF i \in instOpen THEN instOpen \ {i} ELSE instOpen \cup {i}
    /\ pressed' = NoTarget
    /\ multiStep' = MultiEvent("toggle", i, multiStep.closed)
    /\ UNCHANGED <<instMounted, docListeners>>
    /\ UNCHANGED <<selectVars, settingsVars, tabVars>>

\* The click that follows a mousedown on a row of i: onChange, then setIsOpen(false).
\* The instance's option list plays no part here; only the handler's isOpen is read.
RowClick(i) ==
    /\ i \in instOpen
    /\ pressed = <<"option", i>>
    /\ instOpen' = IF OptionOnClick(EmptyList, 0).open THEN instOpen ELSE instOpen \ {i}
    /\ pressed' = NoTarget
    /\ multiStep' = MultiEvent("select", i, multiStep.closed)
    /\ UNCHANGED <<instMounted, docListeners>>
    /\ UNCHANGED <<selectVars, settingsVars, tabVars>>

----------------------------------------------------------------------------
(* The settings tab: AceCodeEditorSettingTab *)

MaxTabCalls == 7

TabEvent(kind, via, prevRoot, created, unmounted) ==
    [kind |-> kind, via |-> via, prevRoot |-> prevRoot, created |-> created,
     unmounted |-> unmounted]

RootAlwaysCreated(held, fresh) == fresh

\* if (!this.root) { this.root = createRoot(containerEl) }: the root held afterwards
RootAfterDisplay(held, fresh) == IF held = 0 THEN fresh ELSE held

\* display(): containerEl.empty(), createRoot if no root is held, renderContent().
\* A new root renders its tree into the container; a held root re-renders the tree
\* it already has, whose nodes empty() has just detached from the container.
Display ==
    /\ Len(tabCalls) < MaxTabCalls
    /\ LET fresh == rootsCreated + 1
           held == RootAfterDisplay(root, fresh)
           made == held # root
       IN  /\ root' = held
           /\ rootsCreated' = IF made THEN fresh ELSE rootsCreated
           /\ liveRoots' = IF made THEN liveRoots \cup {fresh} ELSE liveRoots
           /\ containerEl' = IF made THEN {held} ELSE {}
           /\ tabStep' = TabEvent("display", "display", root, IF made THEN 1 ELSE 0, {})
    /\ tabCalls' = Append(tabCalls, "display")
    /\ UNCHANGED <<selectVars, settingsVars, multiVars>>

\* The body of hide(): unmount and clear the held root, then containerEl.empty()
HideBody(via) ==
    /\ Len(tabCalls) < MaxTabCalls
    /\ IF root # 0
       THEN /\ liveRoots' = liveRoots \ {root}
            /\ root' = 0
            /\ tabStep' = TabEvent("hide", via, root, 0, {root})
       ELSE /\ UNCHANGED <<liveRoots, root>>
            /\ tabStep' = TabEvent("hide", via, root, 0, {})
    /\ containerEl' = {}
    /\ tabCalls' = Append(tabCalls, "hide")
    /\ UNCHANGED rootsCreated
    /\ UNCHANGED <<selectVars, settingsVars, multiVars>>

\* hide(), called by the host when the tab is left
Hide == HideBody("hide")

\* closeSettingsTab(): this.hide()
CloseSettingsTab == HideBody("closeSettingsTab")

InitMulti ==
    /\ instMounted = {}
    /\ instOpen = {}
    /\ docListeners = {}
    /\ pressed = NoTarget
    /\ multiStep = MultiEvent("init", 0, {})

InitTab ==
    /\ root = 0
    /\ liveRoots = {}
    /\ rootsCreated = 0
    /\ containerEl = {}
    /\ tabCalls = <<>>
    /\ tabStep = TabEvent("init", "init", 0, 0, {})

Init ==
    /\ InitSelect
    /\ InitSettings
    /\ InitMulti
    /\ InitTab

Next ==
    \/ \E opts \in OptionLists, v \in ValueChoices, ok \in BOOLEAN : Mount(opts, v, ok)
    \/ Unmount
    \/ ToggleClick
    \/ \E i \in dom.rows : OptionClick(i)
    \/ \E inside \in BOOLEAN : MouseDown(inside)
    \/ \E s \in ScrollOffsets : UserScroll(s)
    \/ DispatchScroll
    \/ \E opts \in OptionLists, ok \in BOOLEAN : ReplaceOptions(opts, ok)
    \/ \E v \in ValueChoices : ChangeValue(v)

Spec == Init /\ [][Next]_vars

NextSettings ==
    \/ \E p \in Partials : HandleUpdateConfig(p)
    \/ RenderSettings

SpecSettings == Init /\ [][NextSettings]_vars

NextMulti ==
    \/ \E i \in Instances : MountInstance(i)
    \/ \E i \in Instances : UnmountInstance(i)
    \/ \E target \in Targets : MouseDownAt(target)
    \/ \E i \in Instances : ControlClick(i)
    \/ \E i \in Instances : RowClick(i)

SpecMulti == Init /\ [][NextMulti]_vars

NextTab ==
    \/ Display
    \/ Hide
    \/ CloseSettingsTab

SpecTab == Init /\ [][NextTab]_vars

----------------------------------------------------------------------------
(* Properties *)

\* C1: a click on rendered row i calls onChange exactly once, with options[i].value,
\* and closes the open dropdown; no other event calls onChange.
C1_SelectCallsOnChangeOnce ==
    /\ step.kind = "select" =>
            /\ step.wasOpen
            /\ ~isOpen
            /\ step.idx \in Indices(options)
            /\ step.calls = <<OptValue(options, step.idx)>>
    /\ step.kind # "select" => step.calls = <<>>

C1_Witness ==
    /\ step.kind = "select"
    /\ step.idx >= visibleItems
    /\ options.variant = 1
    /\ Len(step.calls) = 1

\* C2: a mousedown outside the wrapper leaves the widget closed, and changes neither
\* isOpen, visibleStartIndex nor the cached width and calls nothing when it was closed;
\* a mousedown inside the wrapper does not change isOpen.
C2_OutsideMouseDownCloses ==
    [][/\ step'.kind = "mousedownOutside" =>
            /\ ~isOpen'
            /\ step'.calls = <<>>
            /\ ~isOpen => UNCHANGED <<isOpen, visibleStartIndex, maxDropdownWidth, dom>>
       /\ step'.kind = "mousedownInside" =>
            /\ isOpen' = isOpen
            /\ step'.calls = <<>>]_vars

C2_Witness ==
    /\ step.kind = "mousedownOutside"
    /\ step.wasOpen
    /\ ~isOpen
    /\ visibleStartIndex > 0

\* C3 as stated: after handleScroll ran at a scroll offset in [0, totalHeight], the
\* rendered rows include the row of index floor(scrollOffset / itemHeight).
C3_RowAtOffsetRendered ==
    (step.kind = "scroll" /\ scrollTop \in 0 .. TotalHeight(options)) =>
        (scrollTop \div itemHeight) \in dom.rows

\* C3 amended: the same for a scroll offset in [0, totalHeight), the upper end
\* excluded (so the list is not empty).
C3_RowBelowEndRendered ==
    (step.kind = "scroll" /\ scrollTop >= 0 /\ scrollTop < TotalHeight(options)) =>
        (scrollTop \div itemHeight) \in dom.rows

C3_Witness ==
    /\ step.kind = "scroll"
    /\ scrollTop % itemHeight # 0
    /\ (scrollTop \div itemHeight) >= visibleItems
    /\ (scrollTop \div itemHeight) \in dom.rows

\* C4: at most visibleItems + 2 * bufferItems = 20 rows are rendered at any time, and
\* the spacer of an open dropdown is optionCount * 36 high.
C4_RenderedRowsBounded ==
    /\ Cardinality(dom.rows) <= visibleItems + 2 * bufferItems
    /\ Cardinality(dom.rows) <= 20
    /\ dom.open => dom.spacerHeight = options.len * 36

C4_Witness ==
    /\ dom.open
    /\ options.len > visibleItems + 2 * bufferItems
    /\ Cardinality(dom.rows) = visibleItems + 2 * bufferItems

\* C5 as stated: once the dropdown has opened with value = options[k].value and the
\* scroll event of the opening has been handled, scrollTop is k * itemHeight and the
\* visible start index is max(0, k - floor(visibleItems / 2)).
C5_OpenCentersSelection ==
    (/\ isOpen
     /\ openSettling
     /\ ~pendingScroll
     /\ SelectedIndex(options, value) >= 0) =>
        /\ scrollTop = SelectedIndex(options, value) * itemHeight
        /\ visibleStartIndex =
               Max(0, SelectedIndex(options, value) - (visibleItems \div 2))

\* The largest measured width (offsetWidth + 20) among the labels of opts, 0 if none
WidestLabel(opts) ==
    IF opts.len = 0
    THEN 0
    ELSE CHOOSE w \in {LabelWidth(opts, i) + 20 : i \in Indices(opts)} :
            \A i \in Indices(opts) : LabelWidth(opts, i) + 20 <= w

\* C6 as stated: the cached width is the largest measured label width of the current
\* options (also of an empty list), and a measurement runs exactly when the options
\* array is new (mount or replacement), once.
C6_CachedWidthIsCurrent ==
    mounted =>
        /\ maxDropdownWidth = WidestLabel(options)
        /\ step.measures = (IF step.kind \in {"mount", "replace"} THEN 1 ELSE 0)

\* C7 as stated: after the options array was replaced, the rendered window of an open
\* dropdown lies in [0, optionCount) and is not empty unless the list is.
C7_WindowValidAfterReplace ==
    (step.kind = "replace" /\ mounted /\ isOpen) =>
        /\ dom.rows \subseteq Indices(options)
        /\ options.len > 0 => dom.rows # {}

\* C8: the number of registered mousedown listeners is the number of mounted
\* instances, whatever events happened.
C8_OneListenerPerMountedInstance ==
    listeners = (IF mounted THEN 1 ELSE 0)

C8_Witness ==
    /\ step.kind = "unmount"
    /\ step.wasOpen
    /\ ~mounted
    /\ listeners = 0

\* C9 as stated: when getComputedStyle fails in a measurement pass, no error leaves the
\* effect, the cached width is 0 and rendered as "auto", and no probe span stays
\* attached to document.body.
C9_MeasurementFailsSoft ==
    step.styleFailed =>
        /\ ~errorEscaped
        /\ mounted
        /\ maxDropdownWidth = 0
        /\ dom.controlWidth = <<"auto">>
        /\ probeNodes = 0

\* C10 as stated: the local settings state is the initial settings with the partial of
\* every handleUpdateConfig call applied in order, plugin.updateSettings got exactly
\* those partials, and the local state equals plugin.settings.
C10_LocalStateHasEveryUpdate ==
    /\ queuedSettings = ApplyAll(InitialSettings, updateCalls)
    /\ pluginSettings = ApplyAll(InitialSettings, updateCalls)
    /\ queuedSettings = pluginSettings

\* C11: with several Select instances in one document and every click preceded by a
\* mousedown on the same target, at most one dropdown is open; the mousedown on a
\* control has closed every other instance before the click toggles that control.
C11_AtMostOneOpen ==
    /\ Cardinality(instOpen) <= 1
    /\ Len(pressed) = 2 => instOpen \subseteq {pressed[2]}

C11_Witness ==
    /\ multiStep.kind = "toggle"
    /\ multiStep.inst \in instOpen
    /\ multiStep.closed # {}
    /\ multiStep.inst \notin multiStep.closed
    /\ Cardinality(instMounted) >= 2

\* C12: at most one root exists at a time and it is the held one; display() creates a
\* root only when none is held and otherwise keeps the held one; hide() unmounts the
\* held root and clears it, and unmounts nothing when none is held; a root is held
\* exactly when the most recent call was display().
C12_AtMostOneRoot ==
    /\ Cardinality(liveRoots) <= 1
    /\ liveRoots = (IF root = 0 THEN {} ELSE {root})
    /\ (root # 0) <=> (tabCalls # <<>> /\ tabCalls[Len(tabCalls)] = "display")
    /\ tabStep.kind = "display" =>
            /\ root # 0
            /\ tabStep.created = (IF tabStep.prevRoot = 0 THEN 1 ELSE 0)
            /\ tabStep.prevRoot # 0 => root = tabStep.prevRoot
    /\ tabStep.kind = "hide" =>
            /\ root = 0
            /\ tabStep.unmounted = (IF tabStep.prevRoot = 0 THEN {} ELSE {tabStep.prevRoot})

C12_Witness ==
    /\ tabStep.kind = "hide"
    /\ tabStep.unmounted = {2}
    /\ rootsCreated = 2
    /\ liveRoots = {}
    /\ \E k \in 1 .. (Len(tabCalls) - 1) : tabCalls[k] = "display" /\ tabCalls[k + 1] = "display"

====
